---------------------------- MODULE Spec2Model ----------------------------
(***************************************************************************)
(* Validation model of the Boutiques descriptor schemas defined with       *)
(* pydantic in boutiques_schema_pydantic: the legacy dialect (v_0_5) and   *)
(* the extended dialect (v_styx_1).                                        *)
(*                                                                         *)
(* A raw JSON object is a record from wire keys (kebab-case aliases) to    *)
(* JSON values.  A model class is a table of declared fields, each with a  *)
(* rule translated from its annotation.  Validating a raw object against   *)
(* a class yields the set of field errors pydantic reports; the class      *)
(* accepts the object when that set is empty.                              *)
(***************************************************************************)
EXTENDS Integers, Sequences, FiniteSets, TLC

VARIABLES
    dialect,    \* the schema dialect validating
    target,     \* the union or model class the raw object is validated as
    raw,        \* the raw JSON object
    probe,      \* the wire key under test ("none" when the whole object is)
    outcome,    \* the result of the validation
    prior,      \* the result of the validation before a key was added
    calls,      \* the get_schema calls made so far: <<name, result>> records
    batch       \* the run of generate_all_cli.main

vars == <<dialect, target, raw, probe, outcome, prior, calls, batch>>

-----------------------------------------------------------------------------
(* JSON values.  Every value is a record of the same shape; `kind` is the  *)
(* JSON type.  Numbers are kept in tenths (num10 = 15 is 1.5) so that      *)
(* integral and fractional numbers are distinct.  Strings are sequences    *)
(* of one-character strings so that patterns are matched char by char.     *)

JVal(k, n, t, f, i, s) ==
    [kind |-> k, num10 |-> n, text |-> t, flag |-> f, items |-> i, sub |-> s]

Absent == JVal("absent", 0, <<>>, FALSE, <<>>, <<>>)
JNull == JVal("null", 0, <<>>, FALSE, <<>>, <<>>)
JStr(t) == JVal("string", 0, t, FALSE, <<>>, <<>>)
JNum10(n) == JVal("number", n, <<>>, FALSE, <<>>, <<>>)
JBool(b) == JVal("boolean", 0, <<>>, b, <<>>, <<>>)
JArr(i) == JVal("array", 0, <<>>, FALSE, i, <<>>)
JObj(o) == JVal("object", 0, <<>>, FALSE, <<>>, <<o>>)
JObjArr(os) == JVal("array", 0, <<>>, FALSE, <<>>, os)

\* The value of wire key k in raw object r (Absent when the key is missing).
Get(r, k) == IF k \in DOMAIN r THEN r[k] ELSE Absent

\* The wire keys present in raw object r.
Keys(r) == {k \in DOMAIN r : r[k].kind # "absent"}

-----------------------------------------------------------------------------
(* Character classes and anchored patterns.                                *)

Digits == {"0", "1", "2", "3", "4", "5", "6", "7", "8", "9"}
Upper == {"A", "B", "C", "D", "E", "F", "G", "H", "I", "J", "K", "L", "M",
          "N", "O", "P", "Q", "R", "S", "T", "U", "V", "W", "X", "Y", "Z"}
Lower == {"a", "b", "c", "d", "e", "f", "g", "h", "i", "j", "k", "l", "m",
          "n", "o", "p", "q", "r", "s", "t", "u", "v", "w", "x", "y", "z"}

One(cls) == [cls |-> cls, rep |-> "1"]
Plus(cls) == [cls |-> cls, rep |-> "+"]
Star(cls) == [cls |-> cls, rep |-> "*"]

\* Does pattern p from element i on match all of s from position j to its
\* end?  The patterns of the source are anchored with ^ and $; pydantic's
\* default engine matches $ at the end of the text only.
RECURSIVE MatchFrom(_, _, _, _)
MatchFrom(p, i, s, j) ==
    IF i > Len(p) THEN j > Len(s)
    ELSE LET e == p[i]
             here == j <= Len(s) /\ s[j] \in e.cls
         IN  CASE e.rep = "1" -> here /\ MatchFrom(p, i + 1, s, j + 1)
               [] e.rep = "+" -> here /\ (\/ MatchFrom(p, i + 1, s, j + 1)
                                          \/ MatchFrom(p, i, s, j + 1))
               [] e.rep = "*" -> \/ MatchFrom(p, i + 1, s, j)
                                 \/ here /\ MatchFrom(p, i, s, j + 1)

Matches(p, s) == MatchFrom(p, 1, s, 1)

\* r"^[0-9_a-zA-Z]+$"
IdPatternNoLeadingDigit ==
    <<One({"_"} \cup Lower \cup Upper), Star(Digits \cup {"_"} \cup Lower \cup Upper)>>
IdPattern == <<Plus(Digits \cup {"_"} \cup Lower \cup Upper)>>

\* r"^\[[0-9_A-Z]+\]$"
ValueKeyPatternLower == <<One({"["}), Plus(Digits \cup {"_"} \cup Upper \cup Lower), One({"]"})>>
ValueKeyPattern == <<One({"["}), Plus(Digits \cup {"_"} \cup Upper), One({"]"})>>

\* r"^[A-Za-z0-9_><=!)( ]*$"
PathPropertyPattern ==
    <<Star(Upper \cup Lower \cup Digits \cup {"_", ">", "<", "=", "!", ")", "(", " "})>>

-----------------------------------------------------------------------------
(* Field rules.  A rule is the translation of one field annotation:        *)
(* req = the field has no default, nullable = Optional[...], ty = the      *)
(* annotated type, lit = the value of a Literal["..."] string.             *)

Rule(req, nullable, ty, lit) ==
    [req |-> req, nullable |-> nullable, ty |-> ty, lit |-> lit]

Required(ty) == Rule(TRUE, FALSE, ty, <<>>)
Opt(ty) == Rule(FALSE, TRUE, ty, <<>>)
Defaulted(ty) == Rule(FALSE, FALSE, ty, <<>>)
Literal(t) == Rule(TRUE, FALSE, "literal", t)
\* Literal["a", "b"]: ts is the sequence of the admitted texts.
LiteralOf(ts) == Rule(TRUE, FALSE, "literals", ts)
\* Optional[T] = Field(...) with no default: the key must be present, and
\* may be null.
RequiredNullable(ty) == Rule(TRUE, TRUE, ty, <<>>)

\* Literal tags of the `type` key.
TagString == <<"S", "t", "r", "i", "n", "g">>
TagFile == <<"F", "i", "l", "e">>
TagNumber == <<"N", "u", "m", "b", "e", "r">>
TagFlag == <<"F", "l", "a", "g">>

\* String constraints: type, then min_length, then pattern.
StrError(v, minLen, pat, hasPat) ==
    IF v.kind # "string" THEN "string_type"
    ELSE IF Len(v.text) < minLen THEN "string_too_short"
    ELSE IF hasPat /\ ~Matches(pat, v.text) THEN "string_pattern_mismatch"
    ELSE "none"

\* The number a value stands for, times ten: a JSON number, or a string of
\* digits converted in lax mode.
DigitSeq == <<"0", "1", "2", "3", "4", "5", "6", "7", "8", "9">>
DigitValue(ch) == (CHOOSE i \in 1..10 : DigitSeq[i] = ch) - 1

RECURSIVE TextValue(_)
TextValue(t) ==
    IF t = <<>> THEN 0
    ELSE 10 * TextValue(SubSeq(t, 1, Len(t) - 1)) + DigitValue(t[Len(t)])

Num10(v) == IF v.kind = "number" THEN v.num10 ELSE 10 * TextValue(v.text)

IsIntegral(v) ==
    \/ v.kind = "number" /\ v.num10 % 10 = 0
    \/ v.kind = "string" /\ Matches(<<Plus(Digits)>>, v.text)

IsNumeric(v) ==
    \/ v.kind = "number"
    \/ v.kind = "string" /\ Matches(<<Plus(Digits)>>, v.text)

IsBoolean(v) ==
    \/ v.kind = "boolean"
    \/ v.kind = "number" /\ v.num10 \in {0, 10}

\* One entry of conditional-path-template: a PathProperty object, whose
\* only field, propertyNames, is a required pattern-constrained string.
PathPropertyError(o) ==
    LET v == Get(o, "propertyNames")
    IN  IF v.kind = "absent" THEN "missing"
        ELSE StrError(v, 0, PathPropertyPattern, TRUE)

\* The two dialects, named after their packages.
Legacy == "v_0_5"
Styx == "v_styx_1"
Dialects == {Legacy, Styx}

\* v_0_5 imports StringProperty from its package module; it is the
\* non-empty string of the data model, as in v_styx_1.
LegacyStringPropertyMinLength == 1

\* The nested model types: the class or union each element validates as, and
\* whether the value is one object or a list of them.
NestedTypes ==
    {"SubCommandType", "list[SubCommandType]", "list[Input]", "list[Output]",
     "StdoutOutput", "StderrOutput"}

ElementOf(ty) ==
    CASE ty = "list[SubCommandType]" -> "SubCommandType"
      [] ty = "list[Input]" -> "Input"
      [] ty = "list[Output]" -> "Output"
      [] OTHER -> ty

IsListType(ty) == ty \in {"list[SubCommandType]", "list[Input]", "list[Output]"}

\* The error pydantic reports for a present, non-null value v of type ty
\* ("none" when the value conforms).  d is the dialect; ok holds the pairs
\* <<c, o>> of a nested object o and the class or union c it validates as.
TypeError(ok, d, ty, lit, v) ==
    CASE ty = "str" -> StrError(v, 0, <<>>, FALSE)
      [] ty = "StringProperty" ->
            StrError(v, IF d = Legacy THEN LegacyStringPropertyMinLength ELSE 1,
                     <<>>, FALSE)
      [] ty = "IdStringProperty" -> StrError(v, 1, IdPattern, TRUE)
      [] ty = "ValueKeyStringProperty" -> StrError(v, 1, ValueKeyPattern, TRUE)
      [] ty = "literal" ->
            IF v.kind = "string" /\ v.text = lit THEN "none" ELSE "literal_error"
      [] ty = "literals" ->
            IF v.kind = "string" /\ \E i \in 1..Len(lit) : v.text = lit[i]
            THEN "none" ELSE "literal_error"
      [] ty = "Path" -> IF v.kind = "string" THEN "none" ELSE "path_type"
      [] ty = "int ge=1" ->
            IF ~IsIntegral(v)
            THEN (IF v.kind = "number" THEN "int_from_float" ELSE "int_type")
            ELSE IF Num10(v) >= 10 THEN "none" ELSE "greater_than_equal"
      [] ty = "float ge=0" ->
            IF ~IsNumeric(v) THEN "float_type"
            ELSE IF Num10(v) >= 0 THEN "none" ELSE "greater_than_equal"
      [] ty = "Literal[True]" ->
            IF v.kind = "boolean" /\ v.flag THEN "none" ELSE "literal_error"
      [] ty = "Literal[False]" ->
            IF v.kind = "boolean" /\ ~v.flag THEN "none" ELSE "literal_error"
      [] ty = "bool" -> IF IsBoolean(v) THEN "none" ELSE "bool_type"
      [] ty = "int" ->
            IF IsIntegral(v) THEN "none"
            ELSE IF v.kind = "number" THEN "int_from_float" ELSE "int_type"
      [] ty = "float" -> IF IsNumeric(v) THEN "none" ELSE "float_type"
      [] ty = "list[int]" ->
            IF v.kind # "array" \/ v.sub # <<>> THEN "list_type"
            ELSE IF \A i \in 1..Len(v.items) : IsIntegral(v.items[i])
                 THEN "none" ELSE "int_type"
      [] ty = "list[str]" ->
            IF v.kind # "array" \/ v.sub # <<>> THEN "list_type"
            ELSE IF \A i \in 1..Len(v.items) : v.items[i].kind = "string"
                 THEN "none" ELSE "string_type"
      [] ty = "list[StringProperty]" ->
            IF v.kind # "array" \/ v.sub # <<>> THEN "list_type"
            ELSE IF \A i \in 1..Len(v.items) :
                        StrError(v.items[i], 1, <<>>, FALSE) = "none"
                 THEN "none" ELSE "string_type"
      [] ty = "list[PathProperty]" ->
            IF v.kind # "array" THEN "list_type"
            ELSE IF Len(v.sub) < 1 THEN "too_short"
            ELSE IF \A i \in 1..Len(v.sub) : PathPropertyError(v.sub[i]) = "none"
                 THEN "none" ELSE "model_invalid"
      [] ty \in NestedTypes ->
            IF IsListType(ty) /\ (v.kind # "array" \/ v.items # <<>>) THEN "list_type"
            ELSE IF ~IsListType(ty) /\ v.kind # "object" THEN "model_type"
            ELSE IF \A i \in 1..Len(v.sub) : <<ElementOf(ty), v.sub[i]>> \in ok
                 THEN "none" ELSE "model_invalid"
      [] ty = "HttpUrl" ->
            IF v.kind # "string" THEN "url_type"
            ELSE IF \/ /\ Len(v.text) > 7
                       /\ SubSeq(v.text, 1, 7) = <<"h", "t", "t", "p", ":", "/", "/">>
                    \/ /\ Len(v.text) > 8
                       /\ SubSeq(v.text, 1, 8) = <<"h", "t", "t", "p", "s", ":", "/", "/">>
                 THEN "none" ELSE "url_parsing"
      [] OTHER -> "none"

\* The error of one field under its rule: a missing required field, a null
\* where the annotation is not Optional, or a type error.
FieldError(ok, d, rule, v) ==
    IF v.kind = "absent" THEN (IF rule.req THEN "missing" ELSE "none")
    ELSE IF v.kind = "null" /\ rule.nullable THEN "none"
    ELSE TypeError(ok, d, rule.ty, rule.lit, v)

-----------------------------------------------------------------------------
(* Model classes.  OwnFields gives the fields a class body declares, keyed *)
(* by wire name; Bases gives its base classes in declaration order.        *)


NoFields == [k \in {} |-> Required("str")]

\* f's entries, then those of g that f does not define (a class body over
\* its bases, an earlier base over a later one).
Merge(f, g) == f @@ g

BaseInputFields(d) ==
    IF d = Legacy
    THEN ("id" :> Required("IdStringProperty")) @@
         ("name" :> Required("StringProperty")) @@
         ("description" :> Opt("str")) @@
         ("requires-inputs" :> Opt("list[str]")) @@
         ("disables-inputs" :> Opt("list[str]")) @@
         ("value-key" :> Required("str")) @@
         ("value_requires" :> Opt("Any")) @@
         ("value_enables" :> Opt("Any")) @@
         ("value_disables" :> Opt("Any"))
    ELSE ("id" :> Required("IdStringProperty")) @@
         ("name" :> Opt("StringProperty")) @@
         ("description" :> Opt("StringProperty")) @@
         ("value-key" :> Required("ValueKeyStringProperty"))

CommandLineFlaggedFields(d) ==
    ("command-line-flag" :>
        (IF d = Legacy THEN Required("str") ELSE Required("StringProperty"))) @@
    ("command-line-flag-separator" :> Opt("str"))

ListInputFieldsOptionalMarker(d) ==
    ("list" :> Opt("Literal[True]")) @@
    ("list-separator" :> Opt("str")) @@
    ("min-list-entries" :> Opt("float")) @@
    ("max-list-entries" :> Opt("float"))

ListInputFields(d) ==
    ("list" :> Required("Literal[True]")) @@
    ("list-separator" :> Opt("str")) @@
    ("min-list-entries" :> Opt("float")) @@
    ("max-list-entries" :> Opt("float"))

StringInputFields(d) ==
    ("type" :> Literal(TagString)) @@
    ("value-choices" :> Opt("list[str]")) @@
    ("default-value" :> Opt("str")) @@
    ("optional" :> Defaulted("bool"))

FileInputFields(d) ==
    IF d = Legacy
    THEN ("type" :> Literal(TagFile)) @@
         ("uses-absolute-path" :> Defaulted("bool")) @@
         ("optional" :> Defaulted("bool"))
    ELSE ("type" :> Literal(TagFile)) @@
         ("mutable" :> Defaulted("bool")) @@
         ("resolve-parent" :> Defaulted("bool")) @@
         ("optional" :> Defaulted("bool"))

IntegerInputFields(d) ==
    IF d = Legacy
    THEN ("type" :> Literal(TagNumber)) @@
         ("integer" :> Defaulted("Literal[True]")) @@
         ("minimum" :> Opt("float")) @@
         ("maximum" :> Opt("float")) @@
         ("exclusive-minimum" :> Defaulted("bool")) @@
         ("exclusive-maximum" :> Defaulted("bool")) @@
         ("value-choices" :> Opt("list[int]")) @@
         ("default-value" :> Opt("int")) @@
         ("optional" :> Defaulted("bool"))
    ELSE ("type" :> Literal(TagNumber)) @@
         ("integer" :> Defaulted("Literal[True]")) @@
         ("minimum" :> Opt("int")) @@
         ("maximum" :> Opt("int")) @@
         ("value-choices" :> Opt("list[int]")) @@
         ("default-value" :> Opt("int")) @@
         ("optional" :> Defaulted("bool"))

FloatInputFields(d) ==
    IF d = Legacy
    THEN ("type" :> Literal(TagNumber)) @@
         ("integer" :> Opt("Literal[False]")) @@
         ("default-value" :> Opt("float")) @@
         ("optional" :> Defaulted("bool"))
    ELSE ("type" :> Literal(TagNumber)) @@
         ("integer" :> Opt("Literal[False]")) @@
         ("minimum" :> Opt("float")) @@
         ("maximum" :> Opt("float")) @@
         ("default-value" :> Opt("float")) @@
         ("optional" :> Defaulted("bool"))

FlagInputFields(d) ==
    IF d = Legacy
    THEN ("type" :> Literal(TagFlag)) @@
         ("default-value" :> Opt("bool")) @@
         ("command-line-flag" :> Required("str"))
    ELSE ("type" :> Literal(TagFlag)) @@
         ("default-value" :> Opt("bool")) @@
         ("command-line-flag" :> Required("str")) @@
         ("optional" :> Defaulted("bool"))

SubCommandFields ==
    ("command-line" :> Required("StringProperty")) @@
    ("inputs" :> Opt("list[Input]")) @@
    ("output-files" :> Opt("list[Output]"))

SubCommandTypeFields ==
    ("id" :> Required("IdStringProperty")) @@
    ("name" :> Opt("StringProperty")) @@
    ("description" :> Opt("str"))

\* SubCommandInput with its type declared as Any: the sub-command is taken
\* as given.
SubCommandInputFieldsUnvalidatedType ==
    ("type" :> Required("Any")) @@
    ("optional" :> Defaulted("bool"))

SubCommandInputFields ==
    ("type" :> Required("SubCommandType")) @@
    ("optional" :> Defaulted("bool"))

SubCommandUnionInputFields ==
    ("type" :> Required("list[SubCommandType]")) @@
    ("optional" :> Defaulted("bool"))

\* v_styx_1 Output with path-template declared with a None default.
StyxOutputFieldsOptionalTemplate ==
    ("id" :> Required("IdStringProperty")) @@
    ("name" :> Opt("StringProperty")) @@
    ("description" :> Opt("StringProperty")) @@
    ("path-template" :> Opt("StringProperty")) @@
    ("path-template-stripped-extensions" :> Opt("list[StringProperty]")) @@
    ("path-template-fallback" :> Opt("str"))

\* v_styx_1 Output.
StyxOutputFields ==
    ("id" :> Required("IdStringProperty")) @@
    ("name" :> Opt("StringProperty")) @@
    ("description" :> Opt("StringProperty")) @@
    ("path-template" :> Required("StringProperty")) @@
    ("path-template-stripped-extensions" :> Opt("list[StringProperty]")) @@
    ("path-template-fallback" :> Opt("str"))

StdoutOutputFields ==
    ("id" :> Required("IdStringProperty")) @@
    ("name" :> Opt("StringProperty")) @@
    ("description" :> Opt("str"))

\* v_0_5 outputs.
BaseOutputFields ==
    ("id" :> Required("IdStringProperty")) @@
    ("name" :> Required("StringProperty")) @@
    ("description" :> Opt("str")) @@
    ("optional" :> Defaulted("bool")) @@
    ("path-template-stripped-extensions" :> Opt("list[str]")) @@
    ("file-template" :> Opt("list[StringProperty]")) @@
    ("value-key" :> Opt("str"))

PathTemplateOutputFields ==
    ("path-template" :> Opt("StringProperty"))

ConditionalPathTemplateOutputFields ==
    ("conditional-path-template" :> Opt("list[PathProperty]"))

\* v_0_5 container images.
BaseContainerImageFields ==
    ("working-directory" :> Opt("Path")) @@
    ("container-hash" :> Opt("StringProperty")) @@
    ("entrypoint" :> Defaulted("bool")) @@
    ("index" :> Opt("StringProperty")) @@
    ("container-opts" :> Opt("list[str]"))

TagDocker == <<"d", "o", "c", "k", "e", "r">>
TagSingularity == <<"s", "i", "n", "g", "u", "l", "a", "r", "i", "t", "y">>
TagRootfs == <<"r", "o", "o", "t", "f", "s">>

DockerContainerImageFields ==
    ("type" :> LiteralOf(<<TagDocker, TagSingularity>>)) @@
    ("image" :> Required("StringProperty"))

RootfsContainerImageFields ==
    ("type" :> Literal(TagRootfs)) @@
    ("url" :> Required("HttpUrl"))

\* v_0_5 SuggestedResources: no field has a default.
SuggestedResourcesFields ==
    ("cpu-core" :> RequiredNullable("int ge=1")) @@
    ("ram" :> RequiredNullable("float ge=0")) @@
    ("disk-space" :> RequiredNullable("float ge=0")) @@
    ("nodes" :> RequiredNullable("int ge=1")) @@
    ("walltime-estimate" :> RequiredNullable("float ge=0"))

\* v_styx_1 ContainerImage.
StyxContainerImageAnyEngine ==
    ("type" :> LiteralOf(<<TagDocker, TagSingularity>>)) @@
    ("image" :> Required("StringProperty"))

StyxContainerImageFields ==
    ("type" :> Literal(TagDocker)) @@
    ("image" :> Required("StringProperty"))

\* The value of NAME_BOUTIQUES_STYX_DESCRIPTOR_1's dialect tag.
TagStyx == <<"0", ".", "5", "+", "s", "t", "y", "x">>

\* v_styx_1 Descriptor with schema_version declared as a plain str.
DescriptorFieldsAnyVersion ==
    ("name" :> Required("StringProperty")) @@
    ("description" :> Opt("StringProperty")) @@
    ("schema-version" :> Required("str")) @@
    ("author" :> Opt("StringProperty")) @@
    ("url" :> Opt("HttpUrl")) @@
    ("stdout-output" :> Opt("StdoutOutput")) @@
    ("stderr-output" :> Opt("StderrOutput"))

\* v_styx_1 Descriptor (its SubCommand fields come from its base).
DescriptorFields ==
    ("name" :> Required("StringProperty")) @@
    ("description" :> Opt("StringProperty")) @@
    ("schema-version" :> Literal(TagStyx)) @@
    ("author" :> Opt("StringProperty")) @@
    ("url" :> Opt("HttpUrl")) @@
    ("stdout-output" :> Opt("StdoutOutput")) @@
    ("stderr-output" :> Opt("StderrOutput"))

OwnFields(d, c) ==
    CASE c = "BaseInput" -> BaseInputFields(d)
      [] c = "ContainerImage" -> StyxContainerImageFields
      [] c = "BaseContainerImage" -> BaseContainerImageFields
      [] c = "DockerContainerImage" -> DockerContainerImageFields
      [] c = "RootfsContainerImage" -> RootfsContainerImageFields
      [] c = "SuggestedResources" -> SuggestedResourcesFields
      [] c = "Descriptor" -> DescriptorFields
      [] c = "CommandLineFlagged" -> CommandLineFlaggedFields(d)
      [] c = "ListInput" -> ListInputFields(d)
      [] c = "StringInput" -> StringInputFields(d)
      [] c = "FileInput" -> FileInputFields(d)
      [] c = "IntegerInput" -> IntegerInputFields(d)
      [] c = "FloatInput" -> FloatInputFields(d)
      [] c = "FlagInput" -> FlagInputFields(d)
      [] c = "SubCommand" -> SubCommandFields
      [] c = "SubCommandType" -> SubCommandTypeFields
      [] c = "SubCommandInput" -> SubCommandInputFields
      [] c = "SubCommandUnionInput" -> SubCommandUnionInputFields
      [] c = "Output" -> StyxOutputFields
      [] c = "StdoutOutput" -> StdoutOutputFields
      [] c = "BaseOutput" -> BaseOutputFields
      [] c = "PathTemplateOutput" -> PathTemplateOutputFields
      [] c = "ConditionalPathTemplateOutput" -> ConditionalPathTemplateOutputFields
      [] OTHER -> NoFields

\* The base classes of class c, in declaration order.
Bases(d, c) ==
    CASE c \in {"StringInput", "FileInput", "IntegerInput", "FloatInput",
                "FlagInput", "SubCommandInput", "SubCommandUnionInput"} ->
            <<"BaseInput">>
      [] c = "IntegerListInput" -> <<"IntegerInput", "ListInput">>
      [] c = "FloatListInput" ->
            IF d = Legacy THEN <<"IntegerInput", "ListInput">>
            ELSE <<"FloatInput", "ListInput">>
      [] c = "StringListInput" ->
            IF d = Legacy THEN <<"IntegerInput", "ListInput">>
            ELSE <<"StringInput", "ListInput">>
      [] c = "FileListInput" -> <<"FileInput", "ListInput">>
      [] c = "SubCommandListInput" -> <<"SubCommandInput", "ListInput">>
      [] c = "SubCommandUnionListInput" -> <<"SubCommandUnionInput", "ListInput">>
      [] c = "CommandLineFlaggedIntegerInput" -> <<"IntegerInput", "CommandLineFlagged">>
      [] c = "CommandLineFlaggedFloatInput" -> <<"FloatInput", "CommandLineFlagged">>
      [] c = "CommandLineFlaggedStringInput" -> <<"StringInput", "CommandLineFlagged">>
      [] c = "CommandLineFlaggedFileInput" -> <<"FileInput", "CommandLineFlagged">>
      [] c = "CommandLineFlaggedIntegerListInput" ->
            <<"IntegerListInput", "CommandLineFlagged">>
      [] c = "CommandLineFlaggedFloatListInput" ->
            <<"FloatListInput", "CommandLineFlagged">>
      [] c = "CommandLineFlaggedStringListInput" ->
            <<"StringListInput", "CommandLineFlagged">>
      [] c = "CommandLineFlaggedFileListInput" ->
            <<"FileListInput", "CommandLineFlagged">>
      [] c = "CommandLineFlaggedSubCommandInput" ->
            <<"SubCommandInput", "CommandLineFlagged">>
      [] c = "CommandLineFlaggedSubCommandListInput" ->
            <<"SubCommandListInput", "CommandLineFlagged">>
      [] c = "CommandLineFlaggedSubCommandUnionInput" ->
            <<"SubCommandUnionInput", "CommandLineFlagged">>
      [] c = "CommandLineFlaggedSubCommandUnionListInput" ->
            <<"SubCommandUnionListInput", "CommandLineFlagged">>
      [] c = "SubCommandType" -> <<"SubCommand">>
      [] c \in {"DockerContainerImage", "RootfsContainerImage"} ->
            <<"BaseContainerImage">>
      [] c = "StderrOutput" -> <<"StdoutOutput">>
      [] c = "Descriptor" -> <<"SubCommand">>
      [] OTHER -> <<>>

\* Every field of class c: its own, then its bases' (none has more than two).
RECURSIVE FieldsOf(_, _)
FieldsOf(d, c) ==
    LET bs == Bases(d, c)
        inherited ==
            IF Len(bs) = 0 THEN NoFields
            ELSE IF Len(bs) = 1 THEN FieldsOf(d, bs[1])
            ELSE Merge(FieldsOf(d, bs[1]), FieldsOf(d, bs[2]))
    IN  Merge(OwnFields(d, c), inherited)

\* model_config = ConfigDict(extra="forbid") is set on every v_styx_1 class;
\* the v_0_5 classes keep pydantic's default, which ignores unknown keys.
ExtraNeverForbidden(d, c) == FALSE
ExtraForbid(d, c) == d = Styx

AllClasses ==
    <<"BaseInput", "CommandLineFlagged", "ListInput", "SubCommand", "SubCommandType",
      "ContainerImage", "Descriptor", "BaseContainerImage", "DockerContainerImage",
      "RootfsContainerImage", "SuggestedResources",
     "Output", "StdoutOutput", "StderrOutput", "BaseOutput", "PathTemplateOutput",
     "ConditionalPathTemplateOutput", "StringInput", "FileInput", "IntegerInput",
     "FloatInput", "FlagInput", "SubCommandInput", "SubCommandUnionInput",
     "IntegerListInput", "FloatListInput", "StringListInput", "FileListInput",
     "SubCommandListInput", "SubCommandUnionListInput",
     "CommandLineFlaggedIntegerInput", "CommandLineFlaggedFloatInput",
     "CommandLineFlaggedStringInput", "CommandLineFlaggedFileInput",
     "CommandLineFlaggedIntegerListInput", "CommandLineFlaggedFloatListInput",
     "CommandLineFlaggedStringListInput", "CommandLineFlaggedFileListInput",
     "CommandLineFlaggedSubCommandInput", "CommandLineFlaggedSubCommandListInput",
     "CommandLineFlaggedSubCommandUnionInput",
     "CommandLineFlaggedSubCommandUnionListInput">>

\* The field table of every class, as built once when the class is created.
RECURSIVE FieldTable(_, _)
FieldTable(d, cs) ==
    IF cs = <<>> THEN NoFields
    ELSE (Head(cs) :> FieldsOf(d, Head(cs))) @@ FieldTable(d, Tail(cs))

ModelFields ==
    (Legacy :> FieldTable(Legacy, AllClasses)) @@
    (Styx :> FieldTable(Styx, AllClasses))

\* Descriptor sets populate_by_name=True: a field may be given under its
\* alias or, when the alias is absent, under its attribute name.
PopulateByName(d, c) == d = Styx /\ c = "Descriptor"

FieldName(k) ==
    CASE k = "command-line" -> "command_line"
      [] k = "output-files" -> "output_files"
      [] k = "schema-version" -> "schema_version"
      [] k = "stdout-output" -> "stdout_output"
      [] k = "stderr-output" -> "stderr_output"
      [] OTHER -> k

\* The key of r that field k of class c is read from.
LookupKey(d, c, r, k) ==
    IF PopulateByName(d, c) /\ k \notin Keys(r) THEN FieldName(k) ELSE k

\* The errors of raw object r under the field table F of class c:
\* <<key, error>> pairs.
FieldErrors(F, ok, d, c, r) ==
    {e \in {<<k, FieldError(ok, d, F[k], Get(r, LookupKey(d, c, r, k)))>> :
                k \in DOMAIN F} : e[2] # "none"}
    \cup (IF ExtraForbid(d, c)
          THEN {<<k, "extra_forbidden">> :
                    k \in Keys(r) \ {LookupKey(d, c, r, j) : j \in DOMAIN F}}
          ELSE {})

\* The errors of raw object r validated as class c.
ClassErrorsAt(ok, d, c, r) == FieldErrors(ModelFields[d][c], ok, d, c, r)

\* The field table F of class c accepts r: validation reports no error.
FieldsAccept(F, ok, d, c, r) ==
    /\ \A k \in DOMAIN F :
          FieldError(ok, d, F[k], Get(r, LookupKey(d, c, r, k))) = "none"
    /\ ExtraForbid(d, c) =>
          Keys(r) \subseteq {LookupKey(d, c, r, k) : k \in DOMAIN F}

\* Class c accepts r.
AcceptsAt(ok, d, c, r) == FieldsAccept(ModelFields[d][c], ok, d, c, r)

InputMembersFloatFirst ==
    <<"FlagInput", "StringInput", "FileInput", "FloatInput", "IntegerInput",
      "StringListInput", "FileListInput", "FloatListInput", "IntegerListInput",
      "CommandLineFlaggedStringInput", "CommandLineFlaggedFileInput",
      "CommandLineFlaggedFloatInput", "CommandLineFlaggedIntegerInput",
      "CommandLineFlaggedStringListInput", "CommandLineFlaggedFileListInput",
      "CommandLineFlaggedFloatListInput", "CommandLineFlaggedIntegerListInput">>

\* The members of the Input union, in declaration order.
LegacyInputMembers ==
    <<"FlagInput", "StringInput", "FileInput", "IntegerInput", "FloatInput",
      "StringListInput", "FileListInput", "IntegerListInput", "FloatListInput",
      "CommandLineFlaggedStringInput", "CommandLineFlaggedFileInput",
      "CommandLineFlaggedIntegerInput", "CommandLineFlaggedFloatInput",
      "CommandLineFlaggedStringListInput", "CommandLineFlaggedFileListInput",
      "CommandLineFlaggedIntegerListInput", "CommandLineFlaggedFloatListInput">>

StyxInputMembers ==
    LegacyInputMembers \o
    <<"SubCommandInput", "SubCommandUnionInput", "SubCommandListInput",
      "SubCommandUnionListInput", "CommandLineFlaggedSubCommandInput",
      "CommandLineFlaggedSubCommandListInput",
      "CommandLineFlaggedSubCommandUnionInput",
      "CommandLineFlaggedSubCommandUnionListInput">>

\* The members of a union (a single class is a union of one).
Members(d, u) ==
    CASE u = "Input" -> IF d = Legacy THEN LegacyInputMembers ELSE StyxInputMembers
      [] u = "Output" ->
            IF d = Legacy
            THEN <<"PathTemplateOutput", "ConditionalPathTemplateOutput">>
            ELSE <<"Output">>
      [] u = "ContainerImage" ->
            IF d = Legacy
            THEN <<"DockerContainerImage", "RootfsContainerImage">>
            ELSE <<"ContainerImage">>
      [] OTHER -> <<u>>

\* The members of union u that accept r, in declaration order.
UnionAcceptingAt(ok, d, u, r) ==
    SelectSeq(Members(d, u), LAMBDA c : AcceptsAt(ok, d, c, r))

\* The class or union the objects under key k are validated as ("none"
\* when the key holds no model).
NestedClassOf(k) ==
    CASE k = "inputs" -> "Input"
      [] k \in {"output-files", "output_files"} -> "Output"
      [] k = "type" -> "SubCommandType"
      [] k \in {"stdout-output", "stdout_output"} -> "StdoutOutput"
      [] k \in {"stderr-output", "stderr_output"} -> "StderrOutput"
      [] OTHER -> "none"

\* The objects held by the fields of r, each with the class it is
\* validated as.
NestedPairs(r) ==
    UNION {{<<NestedClassOf(k), r[k].sub[i]>> : i \in 1..Len(r[k].sub)} :
           k \in {j \in DOMAIN r : NestedClassOf(j) # "none"}}

\* Nested validation.  A model field holds objects that are validated by
\* the same rules, so SubCommandType and Input refer to one another; the
\* reference is followed level by level, from the innermost object outwards.
\* The documents checked here nest no deeper than the levels written out.
Conforming0(d, r) == {}

Conforming1(d, r) ==
    {p \in NestedPairs(r) :
        UnionAcceptingAt(Conforming0(d, p[2]), d, p[1], p[2]) # <<>>}

Conforming2(d, r) ==
    {p \in NestedPairs(r) :
        UnionAcceptingAt(Conforming1(d, p[2]), d, p[1], p[2]) # <<>>}

Conforming3(d, r) ==
    {p \in NestedPairs(r) :
        UnionAcceptingAt(Conforming2(d, p[2]), d, p[1], p[2]) # <<>>}

Conforming4(d, r) ==
    {p \in NestedPairs(r) :
        UnionAcceptingAt(Conforming3(d, p[2]), d, p[1], p[2]) # <<>>}

Conforming(d, r) ==
    {p \in NestedPairs(r) :
        UnionAcceptingAt(Conforming4(d, p[2]), d, p[1], p[2]) # <<>>}

ClassErrors(d, c, r) == ClassErrorsAt(Conforming(d, r), d, c, r)
Accepts(d, c, r) == AcceptsAt(Conforming(d, r), d, c, r)
UnionAccepting(d, u, r) == UnionAcceptingAt(Conforming(d, r), d, u, r)

\* Resolution in priority order: the first member that accepts r, or "none".
First(acc) == IF acc = <<>> THEN "none" ELSE acc[1]

Resolve(d, u, r) == First(UnionAccepting(d, u, r))

\* The errors reported when no member accepts: every member's, tagged with
\* the member.
TaggedErrors(ms, d, r) ==
    UNION {{<<ms[i], e[1], e[2]>> : e \in ClassErrors(d, ms[i], r)} :
           i \in 1..Len(ms)}

UnionErrors(d, u, r) == TaggedErrors(Members(d, u), d, r)

\* The outcome record of a validation that resolved to c, with errors errs
\* when it resolved to none.
Outcome(c, errs) ==
    IF c = "none"
    THEN [status |-> "rejected", variant |-> "none", errors |-> errs]
    ELSE [status |-> "accepted", variant |-> c, errors |-> {}]

\* Validation of r against union u.
Validate(d, u, r) == Outcome(Resolve(d, u, r), UnionErrors(d, u, r))

Pending == [status |-> "pending", variant |-> "none", errors |-> {}]

-----------------------------------------------------------------------------
(* Raw input objects.  Each key ranges over a few JSON values that make    *)
(* the field rules of the variants differ.                                 *)

IdN == <<"n">>
Id1bad == <<"1", "b", "a", "d">>
IdHyphen == <<"b", "-", "d">>
KeyN == <<"[", "N", "]">>
KeyX == <<"x">>
FlagF == <<"-", "f">>
TextAbc == <<"a", "b", "c">>

\* A sub-command definition usable as the `type` of a sub-command input.
SubCmd == ("command-line" :> JStr(<<"c">>)) @@ ("id" :> JStr(<<"s">>))

TypeValues ==
    {JStr(TagString), JStr(TagFile), JStr(TagNumber), JStr(TagFlag), JObj(SubCmd)}

InputRaws ==
    {("id" :> i) @@ ("name" :> nm) @@ ("value-key" :> vk) @@ ("type" :> ty) @@
     ("integer" :> ig) @@ ("list" :> ls) @@ ("command-line-flag" :> cf) @@
     ("default-value" :> dv) @@ ("value-choices" :> vc) @@ ("minimum" :> mn) :
        i \in {JStr(IdN), JStr(Id1bad)},
        nm \in {Absent, JStr(IdN)},
        vk \in {JStr(KeyN), JStr(KeyX)},
        ty \in TypeValues,
        ig \in {Absent, JBool(TRUE), JBool(FALSE), JNull},
        ls \in {Absent, JBool(TRUE), JBool(FALSE)},
        cf \in {Absent, JStr(FlagF)},
        dv \in {Absent, JNum10(20), JNum10(15), JStr(TextAbc)},
        vc \in {Absent, JArr(<<JNum10(10)>>)},
        mn \in {Absent, JNum10(5)}}

-----------------------------------------------------------------------------
(* Schema export (cli.py) and the batch script (generate_all_cli.py).      *)

NAME_BOUTIQUES_0_5 == "boutiques-0.5"
NAME_BOUTIQUES_STYX_DESCRIPTOR_1 == "boutiques-styx-descriptor-1"

ALL_NAMES == <<NAME_BOUTIQUES_0_5>>

\* Descriptor.model_json_schema() of the v_0_5 schema module: the JSON
\* Schema document of the legacy Descriptor.
Boutiques05Schema == [kind |-> "document", of |-> "v_0_5.Descriptor"]

export_boutiques_0_5 == Boutiques05Schema

\* raise ValueError(f"Unknown schema: {schema_name}")
UnknownSchema(schema_name) ==
    [kind |-> "ValueError", of |-> <<"Unknown schema: ", schema_name>>]

get_schema_defaulting(schema_name) == export_boutiques_0_5

get_schema(schema_name) ==
    IF schema_name = NAME_BOUTIQUES_0_5
    THEN export_boutiques_0_5
    ELSE UnknownSchema(schema_name)

\* The names get_schema is called with.
MaxCalls == 2
RequestedNames ==
    {NAME_BOUTIQUES_0_5, NAME_BOUTIQUES_STYX_DESCRIPTOR_1, "not-a-real-dialect", ""}

\* os.path.join(output_dir, f"{schema_name}.json")
OutputPath(schema_name) == <<"public", schema_name, ".json">>

\* The batch run: its position, the index of the name in hand, the names
\* whose loop body was entered, the files written, what was printed to
\* stdout and stderr, and the exit status ("none" while running).
BatchIdle ==
    [pc |-> "idle", index |-> 0, entered |-> <<>>, schema |-> "none",
     files |-> {}, out |-> <<>>, err |-> <<>>, status |-> "none", failedAt |-> 0]

ExportedMessage(n) == <<"Exported", n, OutputPath(n)>>
ErrorMessage(n) == <<"Error exporting", n>>
AllGeneratedMessage == <<"All schemas successfully generated", "public">>

ValidationIdle ==
    /\ dialect = Legacy
    /\ target = "none"
    /\ raw = NoFields
    /\ probe = "none"
    /\ outcome = Pending
    /\ prior = Pending

InitExport ==
    /\ ValidationIdle
    /\ calls = <<>>
    /\ batch = BatchIdle

validationVars == <<dialect, target, raw, probe, outcome, prior>>

\* A caller asks for a schema by name.
CallGetSchema ==
    /\ Len(calls) < MaxCalls
    /\ \E n \in RequestedNames :
            calls' = Append(calls, [name |-> n, result |-> get_schema(n)])
    /\ UNCHANGED <<validationVars, batch>>

\* main() starts: os.makedirs(output_dir, exist_ok=True).  An OSError is
\* not caught: the interpreter ends with status 1.
MakeDirs ==
    /\ batch.pc = "idle"
    /\ \/ batch' = [batch EXCEPT !.pc = "loop", !.index = 1]
       \/ batch' = [batch EXCEPT !.pc = "crashed", !.status = 1]
    /\ UNCHANGED <<validationVars, calls>>

\* for schema_name in ALL_NAMES: the next name, or the end of the list.
NextName ==
    /\ batch.pc = "loop"
    /\ IF batch.index <= Len(ALL_NAMES)
       THEN batch' = [batch EXCEPT !.pc = "export",
                                   !.entered = Append(@, ALL_NAMES[batch.index])]
       ELSE batch' = [batch EXCEPT !.pc = "final"]
    /\ UNCHANGED <<validationVars, calls>>

FailedButContinues(b) ==
    [b EXCEPT !.pc = "loop", !.index = @ + 1, !.failedAt = b.index,
              !.err = Append(@, ErrorMessage(ALL_NAMES[b.index]))]

\* except Exception as e: print(..., file=sys.stderr); sys.exit(1)
Failed(b) ==
    [b EXCEPT !.pc = "exited", !.status = 1, !.failedAt = b.index,
              !.err = Append(@, ErrorMessage(ALL_NAMES[b.index]))]

\* schema = get_schema(schema_name)
ExportName ==
    /\ batch.pc = "export"
    /\ LET n == ALL_NAMES[batch.index]
           res == get_schema(n)
       IN  /\ calls' = Append(calls, [name |-> n, result |-> res])
           /\ batch' = IF res.kind = "document"
                       THEN [batch EXCEPT !.pc = "write", !.schema = res]
                       ELSE Failed(batch)
    /\ UNCHANGED validationVars

\* with open(output_path, "w") as f: json.dump(schema, f, indent=2)
\* The file system may refuse.
WriteFile ==
    /\ batch.pc = "write"
    /\ \/ batch' = [batch EXCEPT !.pc = "report",
                                  !.files = @ \cup {OutputPath(ALL_NAMES[batch.index])}]
       \/ batch' = Failed(batch)
    /\ UNCHANGED <<validationVars, calls>>

\* print(f"Exported {schema_name} to {output_path}"), still inside the try.
ReportExported ==
    /\ batch.pc = "report"
    /\ \/ batch' = [batch EXCEPT !.pc = "loop", !.index = @ + 1,
                                  !.out = Append(@, ExportedMessage(ALL_NAMES[batch.index]))]
       \/ batch' = Failed(batch)
    /\ UNCHANGED <<validationVars, calls>>

\* print("All schemas successfully generated ..."), then main() returns.
FinishAll ==
    /\ batch.pc = "final"
    /\ batch' = [batch EXCEPT !.pc = "done", !.status = 0,
                              !.out = Append(@, AllGeneratedMessage)]
    /\ UNCHANGED <<validationVars, calls>>

NextExport ==
    \/ CallGetSchema
    \/ MakeDirs
    \/ NextName
    \/ ExportName
    \/ WriteFile
    \/ ReportExported
    \/ FinishAll

SpecExport == InitExport /\ [][NextExport]_vars

-----------------------------------------------------------------------------
(* The state machine: a raw object is handed to a validator of a dialect,  *)
(* which resolves it or rejects it.                                        *)

TypeOK ==
    /\ dialect \in Dialects
    /\ outcome.status \in {"pending", "accepted", "rejected"}

InitInput ==
    /\ dialect \in Dialects
    /\ target = "Input"
    /\ raw \in InputRaws
    /\ probe = "none"
    /\ outcome = Pending
    /\ prior = Pending
    /\ calls = <<>>
    /\ batch = BatchIdle

\* TypeAdapter(Input).validate_python(raw)
ValidateInput ==
    /\ target = "Input"
    /\ outcome.status = "pending"
    /\ outcome' = Validate(dialect, "Input", raw)
    /\ UNCHANGED <<dialect, target, raw, probe, prior, calls, batch>>

\* TypeAdapter(Output).validate_python(raw)
ValidateOutput ==
    /\ target = "Output"
    /\ outcome.status = "pending"
    /\ outcome' = Validate(dialect, "Output", raw)
    /\ UNCHANGED <<dialect, target, raw, probe, prior, calls, batch>>

\* <Model>.model_validate(raw) for a single model class.
ValidateModel ==
    /\ target \notin {"Input", "Output"}
    /\ outcome.status = "pending"
    /\ outcome' = Validate(dialect, target, raw)
    /\ UNCHANGED <<dialect, target, raw, probe, prior, calls, batch>>

NextInput == ValidateInput

Spec == InitInput /\ [][NextInput]_vars

Done == outcome.status # "pending"
AcceptedNow == outcome.status = "accepted"
RejectedNow == outcome.status = "rejected"

-----------------------------------------------------------------------------
(* Strings under test: every string over a small alphabet, up to a length, *)
(* placed as the `id` or the `value-key` of an otherwise valid object.     *)

MaxStrLen == 4

StrAlphabet == {"a", "Z", "0", "_", "-", "[", "]"}

RECURSIVE StringsOfLen(_)
StringsOfLen(n) ==
    IF n = 0 THEN {<<>>}
    ELSE {Append(t, c) : t \in StringsOfLen(n - 1), c \in StrAlphabet}

Strings == UNION {StringsOfLen(n) : n \in 0..MaxStrLen}

ValidInput ==
    ("id" :> JStr(IdN)) @@ ("name" :> JStr(IdN)) @@ ("value-key" :> JStr(KeyN)) @@
    ("type" :> JStr(TagString))

ValidOutput ==
    ("id" :> JStr(IdN)) @@ ("name" :> JStr(IdN)) @@
    ("path-template" :> JStr(<<"o">>))

ValidStdout == ("id" :> JStr(IdN))

\* <<dialect, target, key>>: where a string is placed.
Slots ==
    {<<Legacy, "Input", "id">>, <<Styx, "Input", "id">>,
     <<Legacy, "Output", "id">>, <<Styx, "Output", "id">>,
     <<Styx, "SubCommandType", "id">>,
     <<Styx, "StdoutOutput", "id">>, <<Styx, "StderrOutput", "id">>,
     <<Legacy, "Input", "value-key">>, <<Styx, "Input", "value-key">>}

ValidDoc(u) ==
    CASE u = "Input" -> ValidInput
      [] u = "Output" -> ValidOutput
      [] u = "SubCommandType" -> SubCmd
      [] OTHER -> ValidStdout

InitStrings ==
    \E slot \in Slots, s \in Strings :
        /\ dialect = slot[1]
        /\ target = slot[2]
        /\ probe = slot[3]
        /\ raw = (slot[3] :> JStr(s)) @@ ValidDoc(slot[2])
        /\ outcome = Pending
        /\ prior = Pending
        /\ calls = <<>>
        /\ batch = BatchIdle
    /\ calls = <<>>
    /\ batch = BatchIdle

NextStrings == ValidateInput \/ ValidateOutput \/ ValidateModel

SpecStrings == InitStrings /\ [][NextStrings]_vars

-----------------------------------------------------------------------------
(* Whole objects of every model, each valid or nearly so, to which one     *)
(* undeclared key may be added after a first validation.                   *)

StyxDescriptor ==
    ("name" :> JStr(<<"t">>)) @@ ("command-line" :> JStr(<<"c">>)) @@
    ("schema-version" :> JStr(<<"0", ".", "5", "+", "s", "t", "y", "x">>))

StyxContainer ==
    ("type" :> JStr(<<"d", "o", "c", "k", "e", "r">>)) @@
    ("image" :> JStr(<<"i">>))

\* Inputs of every kind, list-ness and flagged-ness.
ShapedInputs ==
    {("id" :> JStr(IdN)) @@ ("name" :> JStr(IdN)) @@ ("value-key" :> JStr(KeyN)) @@
     ("type" :> k[1]) @@ ("integer" :> k[2]) @@ ("list" :> ls) @@
     ("command-line-flag" :> cf) :
        k \in {<<JStr(TagString), Absent>>, <<JStr(TagFile), Absent>>,
               <<JStr(TagNumber), JBool(TRUE)>>, <<JStr(TagNumber), JBool(FALSE)>>,
               <<JStr(TagFlag), Absent>>, <<JObj(SubCmd), Absent>>,
               <<JObjArr(<<SubCmd>>), Absent>>},
        ls \in {Absent, JBool(TRUE)},
        cf \in {Absent, JStr(FlagF)}}

PathProp(t) == ("propertyNames" :> JStr(t))

OutputRaws ==
    {("id" :> i) @@ ("name" :> nm) @@ ("path-template" :> pt) @@
     ("conditional-path-template" :> cp) @@ ("path-template-fallback" :> fb) @@
     ("optional" :> op) @@ ("file-template" :> ft) :
        i \in {Absent, JStr(IdN)},
        nm \in {Absent, JStr(IdN)},
        pt \in {Absent, JStr(<<"o">>), JStr(<<>>)},
        cp \in {Absent, JObjArr(<<>>), JObjArr(<<PathProp(<<"d">>)>>),
                JObjArr(<<("default" :> JStr(<<"o">>))>>)},
        fb \in {Absent, JStr(<<"f">>)},
        op \in {Absent, JBool(TRUE)},
        ft \in {Absent, JArr(<<JStr(<<"l">>)>>)}}

\* Descriptors with each required field absent, empty or valid, given under
\* its alias, under its attribute name, or both.
DescriptorRaws ==
    {("name" :> nm) @@ ("command-line" :> cl) @@ ("command_line" :> cn) @@
     ("schema-version" :> sv) @@ ("schema_version" :> sn) :
        nm \in {Absent, JStr(<<"t">>), JStr(<<>>)},
        cl \in {Absent, JStr(<<"c">>), JStr(<<>>)},
        cn \in {Absent, JStr(<<"c">>)},
        sv \in {Absent, JStr(TagStyx), JStr(<<"0", ".", "5">>)},
        sn \in {Absent, JStr(TagStyx)}}

\* Descriptors whose inputs embed sub-commands, one or two levels deep, as a
\* single sub-command or as a union of two.  A sub-command is sound or has
\* one flaw.
Flaws ==
    {"none", "empty-command-line", "invalid-id", "invalid-input-id",
     "unknown-key", "unknown-input-key", "invalid-output"}

PlainInput(f) ==
    ("id" :> JStr(IF f = "invalid-input-id" THEN IdHyphen ELSE IdN)) @@
    ("value-key" :> JStr(KeyN)) @@ ("type" :> JStr(TagString)) @@
    ("x-extra" :> IF f = "unknown-input-key" THEN JBool(TRUE) ELSE Absent)

\* An output without its path-template.
OutputNoTemplate == ("id" :> JStr(IdN))

SubCommandOf(f, more) ==
    ("command-line" :> JStr(IF f = "empty-command-line" THEN <<>> ELSE <<"c">>)) @@
    ("id" :> JStr(IF f = "invalid-id" THEN IdHyphen ELSE <<"s">>)) @@
    ("inputs" :> JObjArr(<<PlainInput(f)>> \o more)) @@
    ("output-files" :> IF f = "invalid-output" THEN JObjArr(<<OutputNoTemplate>>)
                       ELSE Absent) @@
    ("x-extra" :> IF f = "unknown-key" THEN JBool(TRUE) ELSE Absent)

Shapes == {"single", "union"}

SubCommandInputOf(shape, sc) ==
    ("id" :> JStr(IdN)) @@ ("value-key" :> JStr(KeyN)) @@
    ("type" :> IF shape = "single" THEN JObj(sc) ELSE JObjArr(<<SubCmd, sc>>))

NestedDescriptors ==
    {StyxDescriptor @@ ("inputs" :> JObjArr(<<SubCommandInputOf(s1, SubCommandOf(f1, <<>>))>>)) :
        s1 \in Shapes, f1 \in Flaws}
    \cup
    {StyxDescriptor @@
     ("inputs" :> JObjArr(<<SubCommandInputOf(s1,
            SubCommandOf(f1, <<SubCommandInputOf(s2, SubCommandOf(f2, <<>>))>>))>>)) :
        s1 \in Shapes, f1 \in Flaws, s2 \in Shapes, f2 \in Flaws}

\* <<dialect, target, raw>>
ObjectDocs ==
    {<<Styx, "Descriptor", StyxDescriptor>>, <<Styx, "SubCommandType", SubCmd>>,
     <<Styx, "ContainerImage", StyxContainer>>,
     <<Styx, "StdoutOutput", ValidStdout>>, <<Styx, "StderrOutput", ValidStdout>>}
    \cup {<<d, "Input", r>> : d \in Dialects, r \in ShapedInputs}
    \cup {<<d, "Output", r>> : d \in Dialects, r \in OutputRaws}
    \cup {<<Styx, "Descriptor", r>> : r \in DescriptorRaws}
    \cup {<<Styx, "Descriptor", r>> : r \in NestedDescriptors}

InitObjects ==
    \E doc \in ObjectDocs :
        /\ dialect = doc[1]
        /\ target = doc[2]
        /\ raw = doc[3]
        /\ probe = "none"
        /\ outcome = Pending
        /\ prior = Pending
        /\ calls = <<>>
        /\ batch = BatchIdle

\* One key that no model declares is added to an accepted object, which is
\* then validated again.
AddUndeclaredKey ==
    /\ outcome.status = "accepted"
    /\ prior.status = "pending"
    /\ ~("x-unknown" \in Keys(raw))
    /\ raw' = ("x-unknown" :> JBool(TRUE)) @@ raw
    /\ prior' = outcome
    /\ outcome' = Pending
    /\ UNCHANGED <<dialect, target, probe, calls, batch>>

NextObjects == ValidateInput \/ ValidateOutput \/ ValidateModel \/ AddUndeclaredKey

SpecObjects == InitObjects /\ [][NextObjects]_vars

-----------------------------------------------------------------------------
(* Container images and resource hints.                                    *)

UrlH == <<"h", "t", "t", "p", ":", "/", "/", "h">>

ContainerRaws ==
    {("type" :> ty) @@ ("image" :> im) @@ ("url" :> u) @@
     ("working-directory" :> wd) @@ ("entrypoint" :> ep) @@
     ("container-hash" :> ch) @@ ("index" :> ix) @@ ("container-opts" :> co) :
        ty \in {Absent, JStr(TagDocker), JStr(TagSingularity), JStr(TagRootfs),
                JStr(<<"l", "x", "c">>)},
        im \in {Absent, JStr(<<"i">>), JStr(<<>>)},
        u \in {Absent, JStr(UrlH), JStr(<<"x">>)},
        wd \in {Absent, JStr(<<"/", "w">>)},
        ep \in {Absent, JBool(TRUE)},
        ch \in {Absent, JStr(<<"h">>)},
        ix \in {Absent, JStr(<<"i">>)},
        co \in {Absent, JArr(<<JStr(<<"-", "p">>)>>)}}

ResourceKeys == {"cpu-core", "ram", "disk-space", "nodes", "walltime-estimate"}

\* Each field absent, null, or one of -1, 0, 0.5, 1, 2.
ResourceValues ==
    {Absent, JNull, JNum10(-10), JNum10(0), JNum10(5), JNum10(10), JNum10(20)}

ResourceRaws == [ResourceKeys -> ResourceValues]

InitProperties ==
    /\ \/ /\ dialect \in Dialects
          /\ target = "ContainerImage"
          /\ raw \in ContainerRaws
       \/ /\ dialect = Legacy
          /\ target = "SuggestedResources"
          /\ raw \in ResourceRaws
    /\ probe = "none"
    /\ outcome = Pending
    /\ prior = Pending
    /\ calls = <<>>
    /\ batch = BatchIdle

NextProperties == ValidateModel

SpecProperties == InitProperties /\ [][NextProperties]_vars

-----------------------------------------------------------------------------
(* Variant families of the Input union, by class name.                     *)

IntegerVariants ==
    {"IntegerInput", "IntegerListInput", "CommandLineFlaggedIntegerInput",
     "CommandLineFlaggedIntegerListInput"}

FloatVariants ==
    {"FloatInput", "FloatListInput", "CommandLineFlaggedFloatInput",
     "CommandLineFlaggedFloatListInput"}

ListVariants ==
    {"StringListInput", "FileListInput", "IntegerListInput", "FloatListInput",
     "CommandLineFlaggedStringListInput", "CommandLineFlaggedFileListInput",
     "CommandLineFlaggedIntegerListInput", "CommandLineFlaggedFloatListInput",
     "SubCommandListInput", "SubCommandUnionListInput",
     "CommandLineFlaggedSubCommandListInput",
     "CommandLineFlaggedSubCommandUnionListInput"}

FlaggedVariants ==
    {"CommandLineFlaggedStringInput", "CommandLineFlaggedFileInput",
     "CommandLineFlaggedIntegerInput", "CommandLineFlaggedFloatInput",
     "CommandLineFlaggedStringListInput", "CommandLineFlaggedFileListInput",
     "CommandLineFlaggedIntegerListInput", "CommandLineFlaggedFloatListInput"}

\* The Float variant with the same list and flag shape as an Integer variant.
FloatTwin(c) ==
    CASE c = "IntegerInput" -> "FloatInput"
      [] c = "IntegerListInput" -> "FloatListInput"
      [] c = "CommandLineFlaggedIntegerInput" -> "CommandLineFlaggedFloatInput"
      [] c = "CommandLineFlaggedIntegerListInput" -> "CommandLineFlaggedFloatListInput"
      [] OTHER -> "none"

InputDone == target = "Input" /\ Done
IsNumber(r) == Get(r, "type") = JStr(TagNumber)
Has(r, k) == k \in Keys(r)

\* C1 (as claimed): an accepted "Number" input resolves to an Integer variant
\* when `integer` is true or absent, and to a Float variant when it is false.
C1_MarkerAloneDecides ==
    (InputDone /\ AcceptedNow /\ IsNumber(raw)) =>
        /\ Get(raw, "integer") \in {Absent, JBool(TRUE)} =>
                outcome.variant \in IntegerVariants
        /\ Get(raw, "integer") = JBool(FALSE) => outcome.variant \in FloatVariants

\* C1 (amended): an accepted "Number" input resolves to an Integer variant
\* when `integer` is true, to a Float variant when it is false, and, when the
\* marker is absent, to an Integer variant if some Integer variant accepts the
\* object and to a Float variant otherwise.
C1_MarkerThenFieldTypesDecide ==
    (InputDone /\ AcceptedNow /\ IsNumber(raw)) =>
        /\ Get(raw, "integer") = JBool(TRUE) => outcome.variant \in IntegerVariants
        /\ Get(raw, "integer") = JBool(FALSE) => outcome.variant \in FloatVariants
        /\ Get(raw, "integer") = Absent =>
                IF \E c \in IntegerVariants : Accepts(dialect, c, raw)
                THEN outcome.variant \in IntegerVariants
                ELSE outcome.variant \in FloatVariants

\* A Number input without marker whose default value is fractional was
\* resolved to FloatInput; and one with an integral default to IntegerInput.
C1_Witness ==
    /\ InputDone /\ AcceptedNow /\ IsNumber(raw)
    /\ Get(raw, "integer") = Absent
    /\ Get(raw, "default-value") = JNum10(15)
    /\ outcome.variant = "FloatInput"

\* C2 (as claimed): an accepted raw input is accepted by exactly one variant.
C2_ExactlyOneVariantAccepts ==
    (InputDone /\ AcceptedNow) => Len(UnionAccepting(dialect, "Input", raw)) = 1

\* C2 (amended): the variants accepting an accepted raw input all declare
\* the same `type` rule; in the extended dialect at most two variants accept,
\* and two do only for a Number input without `integer` marker, namely an
\* Integer variant and the Float variant of the same list and flag shape.
C2_OverlapOnlyWithinOneKind ==
    (InputDone /\ AcceptedNow) =>
        LET acc == UnionAccepting(dialect, "Input", raw)
        IN  /\ Len(acc) >= 1
            /\ \A i, j \in 1..Len(acc) :
                    ModelFields[dialect][acc[i]]["type"] =
                    ModelFields[dialect][acc[j]]["type"]
            /\ dialect = Styx =>
                    /\ Len(acc) <= 2
                    /\ Len(acc) = 2 =>
                            /\ IsNumber(raw) /\ ~Has(raw, "integer")
                            /\ acc[1] \in IntegerVariants
                            /\ acc[2] = FloatTwin(acc[1])

\* An extended-dialect Number list input without marker was accepted by two
\* variants.
C2_Witness ==
    /\ InputDone /\ AcceptedNow /\ dialect = Styx
    /\ Has(raw, "list")
    /\ Len(UnionAccepting(dialect, "Input", raw)) = 2

\* C3 (as claimed): an input carrying `list` resolves to a list variant, and
\* a String/File/Number input carrying `command-line-flag` resolves to a
\* command-line-flagged variant.
C3_MarkedInputsResolveToMarkedVariants ==
    (InputDone /\ AcceptedNow) =>
        /\ Has(raw, "list") => outcome.variant \in ListVariants
        /\ (/\ Get(raw, "type") \in {JStr(TagString), JStr(TagFile), JStr(TagNumber)}
            /\ Has(raw, "command-line-flag")) =>
                outcome.variant \in FlaggedVariants

\* C4 (as claimed): a Flag input carrying `list` is rejected.
C4_FlagWithListRejected ==
    (InputDone /\ Get(raw, "type") = JStr(TagFlag) /\ Has(raw, "list")) =>
        RejectedNow

\* {"id":"1bad","type":"String","value-key":"x","name":"n"}
IsScenarioB(r) ==
    /\ Keys(r) = {"id", "type", "value-key", "name"}
    /\ r["id"] = JStr(Id1bad)
    /\ r["type"] = JStr(TagString)
    /\ r["value-key"] = JStr(KeyX)
    /\ r["name"] = JStr(IdN)

\* C5 (as claimed): scenario B is rejected with a pattern violation on `id`.
C5_ScenarioBFailsOnId ==
    (InputDone /\ IsScenarioB(raw)) =>
        /\ RejectedNow
        /\ \E e \in outcome.errors :
                e[2] = "id" /\ e[3] = "string_pattern_mismatch"

\* C5 (amended): scenario B has a valid id (no error is reported on `id`);
\* the legacy dialect accepts it as a StringInput, and the extended dialect
\* rejects it with a pattern violation on `value-key`.
C5_ScenarioBFailsOnValueKeyOnly ==
    (InputDone /\ IsScenarioB(raw)) =>
        /\ \A e \in outcome.errors : e[2] # "id"
        /\ dialect = Legacy => AcceptedNow /\ outcome.variant = "StringInput"
        /\ dialect = Styx =>
                /\ RejectedNow
                /\ <<"StringInput", "value-key", "string_pattern_mismatch">>
                        \in outcome.errors

\* Scenario B was validated in the extended dialect and rejected.
C5_Witness == InputDone /\ IsScenarioB(raw) /\ dialect = Styx /\ RejectedNow

IdChars == Digits \cup Upper \cup Lower \cup {"_"}
ProbeText == raw[probe].text

\* C6 (as claimed): a string used as the `id` of an input, an output, a
\* sub-command or a stdout/stderr output is accepted if and only if it is
\* non-empty and made of characters 0-9, A-Z, a-z and underscore only.
C6_IdAcceptedIffAlphanumeric ==
    (Done /\ probe = "id") =>
        (AcceptedNow <=>
            /\ Len(ProbeText) >= 1
            /\ \A i \in 1..Len(ProbeText) : ProbeText[i] \in IdChars)

\* C7: a string used as the `value-key` of an extended-dialect input is
\* accepted if and only if it is "[", then one or more characters of 0-9,
\* A-Z and underscore, then "]".
C7_StyxValueKeyBracketedUpper ==
    (Done /\ probe = "value-key" /\ dialect = Styx) =>
        (AcceptedNow <=>
            /\ Len(ProbeText) >= 3
            /\ ProbeText[1] = "["
            /\ ProbeText[Len(ProbeText)] = "]"
            /\ \A i \in 2..(Len(ProbeText) - 1) :
                    ProbeText[i] \in Digits \cup Upper \cup {"_"})

\* A bracketed upper-case value-key was accepted by the extended dialect.
C7_Witness ==
    /\ Done /\ probe = "value-key" /\ dialect = Styx /\ AcceptedNow
    /\ ProbeText = <<"[", "Z", "]">>

\* C8 (as claimed): a string used as the `value-key` of a legacy-dialect
\* input is accepted if and only if it is non-empty.
C8_LegacyValueKeyAcceptedIffNonEmpty ==
    (Done /\ probe = "value-key" /\ dialect = Legacy) =>
        (AcceptedNow <=> Len(ProbeText) >= 1)

\* C9: one undeclared key added to an accepted object makes the extended
\* dialect reject it, with that key reported as forbidden, and leaves the
\* legacy dialect accepting it as the same variant.
C9_UndeclaredKeyRejectedOnlyByStyx ==
    (Done /\ prior.status = "accepted") =>
        /\ dialect = Styx =>
                /\ RejectedNow
                /\ \E e \in outcome.errors :
                        e[2] = "x-unknown" /\ e[3] = "extra_forbidden"
        /\ dialect = Legacy => AcceptedNow /\ outcome.variant = prior.variant

\* An accepted extended-dialect Descriptor was rejected once it carried an
\* undeclared key.
C9_Witness ==
    /\ Done /\ prior.status = "accepted" /\ dialect = Styx
    /\ target = "Descriptor" /\ RejectedNow

\* C10 (as claimed): a legacy output is accepted only if it carries exactly
\* one of `path-template` and `conditional-path-template`.
C10_LegacyOutputExactlyOneTemplate ==
    (Done /\ dialect = Legacy /\ target = "Output" /\ AcceptedNow) =>
        (Has(raw, "path-template") <=> ~Has(raw, "conditional-path-template"))

-----------------------------------------------------------------------------
(* Container images and resource hints.                                    *)

ContainerDone == target = "ContainerImage" /\ Done
ResourcesDone == target = "SuggestedResources" /\ Done
TypeIs(r, t) == Get(r, "type") = JStr(t)
NonEmptyText(r, k) == Get(r, k).kind = "string" /\ Get(r, k).text # <<>>

\* C11: an accepted container image has, in v_0_5, type docker or singularity
\* with a non-empty image, or type rootfs with a url; in v_styx_1, type
\* docker with a non-empty image.  Every other type is rejected.
C11_TypeTagFixesRequiredField ==
    ContainerDone /\ AcceptedNow =>
        IF dialect = Legacy
        THEN \/ /\ TypeIs(raw, TagDocker) \/ TypeIs(raw, TagSingularity)
                /\ NonEmptyText(raw, "image")
             \/ /\ TypeIs(raw, TagRootfs)
                /\ Has(raw, "url")
        ELSE TypeIs(raw, TagDocker) /\ NonEmptyText(raw, "image")

C11_Witness ==
    ContainerDone /\ AcceptedNow /\ dialect = Legacy /\ TypeIs(raw, TagRootfs)

SharedContainerKeys ==
    {"working-directory", "entrypoint", "container-hash", "index", "container-opts"}

\* C12: a v_styx_1 container with type docker, an image and any of the
\* shared fields is accepted.
C12_StyxContainerKeepsSharedFields ==
    /\ ContainerDone
    /\ dialect = Styx
    /\ TypeIs(raw, TagDocker)
    /\ NonEmptyText(raw, "image")
    /\ Keys(raw) \subseteq {"type", "image"} \cup SharedContainerKeys
    => AcceptedNow

BelowBound(r, k) ==
    /\ Get(r, k).kind = "number"
    /\ Get(r, k).num10 < (IF k \in {"cpu-core", "nodes"} THEN 10 ELSE 0)

\* C13: every field of SuggestedResources may be omitted, and an object is
\* rejected exactly when a present field is below its lower bound.
C13_ResourcesOptionalWithLowerBounds ==
    ResourcesDone =>
        (RejectedNow <=> \E k \in ResourceKeys : BelowBound(raw, k))

-----------------------------------------------------------------------------
(* Schema export and the batch script.                                     *)

Supported(n) == \E k \in 1..Len(ALL_NAMES) : ALL_NAMES[k] = n
Printed(m) == \E i \in 1..Len(batch.out) : batch.out[i] = m

\* C14: every get_schema call with a name of ALL_NAMES returned a schema
\* document, and every call with another name raised the "Unknown schema"
\* error carrying that name.
C14_GetSchemaOnlyForSupportedNames ==
    \A i \in 1..Len(calls) :
        IF Supported(calls[i].name)
        THEN calls[i].result.kind = "document"
        ELSE /\ calls[i].result.kind = "ValueError"
             /\ calls[i].result.of = <<"Unknown schema: ", calls[i].name>>

C14_Witness ==
    /\ \E i \in 1..Len(calls) :
            calls[i].name = "not-a-real-dialect" /\ calls[i].result.kind = "ValueError"
    /\ \E i \in 1..Len(calls) :
            calls[i].name = NAME_BOUTIQUES_0_5 /\ calls[i].result.kind = "document"

\* C19: the batch run enters the names of ALL_NAMES in list order and writes
\* public/<name>.json for them; a failure at a name ends the run there with
\* status 1, and the closing message is printed only when every name was
\* exported and written.
C19_BatchStopsAtFirstFailure ==
    /\ Len(batch.entered) <= Len(ALL_NAMES)
    /\ \A i \in 1..Len(batch.entered) : batch.entered[i] = ALL_NAMES[i]
    /\ batch.files \subseteq {OutputPath(batch.entered[i]) : i \in 1..Len(batch.entered)}
    /\ batch.failedAt # 0 =>
            /\ batch.pc = "exited"
            /\ batch.status = 1
            /\ Len(batch.entered) = batch.failedAt
            /\ ~Printed(AllGeneratedMessage)
    /\ Printed(AllGeneratedMessage) =>
            \A k \in 1..Len(ALL_NAMES) :
                /\ OutputPath(ALL_NAMES[k]) \in batch.files
                /\ Printed(ExportedMessage(ALL_NAMES[k]))
                /\ \E i \in 1..Len(calls) :
                        /\ calls[i].name = ALL_NAMES[k]
                        /\ calls[i].result.kind = "document"

C19_Witness ==
    /\ batch.pc = "exited"
    /\ batch.failedAt = 1
    /\ batch.status = 1
    /\ batch.files = {}

-----------------------------------------------------------------------------
(* The list variants of the v_0_5 Input union.                             *)

\* C20: in v_0_5, StringListInput accepts a well-formed object with type
\* "String" and list true, FloatListInput one with type "Number", integer
\* false and list true, and their command-line-flagged forms likewise.
C20_LegacyListVariantsAcceptNamedKind ==
    (/\ InputDone
     /\ dialect = Legacy
     /\ Has(raw, "name")
     /\ Get(raw, "list") = JBool(TRUE)
     /\ ~Has(raw, "value-choices")
     /\ ~Has(raw, "minimum")) =>
        LET flagged == Has(raw, "command-line-flag")
        IN  /\ (/\ Get(raw, "type") = JStr(TagString)
                /\ ~Has(raw, "integer")
                /\ Get(raw, "default-value") \in {Absent, JStr(TextAbc)}) =>
                    Accepts(Legacy,
                            IF flagged THEN "CommandLineFlaggedStringListInput"
                            ELSE "StringListInput", raw)
            /\ (/\ IsNumber(raw)
                /\ Get(raw, "integer") = JBool(FALSE)
                /\ Get(raw, "default-value").kind \in {"absent", "number"}) =>
                    Accepts(Legacy,
                            IF flagged THEN "CommandLineFlaggedFloatListInput"
                            ELSE "FloatListInput", raw)

\* The raw object r with its path-template-fallback present when it was absent
\* and absent when it was present.
FallbackToggled(r) ==
    [r EXCEPT !["path-template-fallback"] =
        IF @ = Absent THEN JStr(<<"f">>) ELSE Absent]

StyxOutputDone == dialect = Styx /\ target = "Output" /\ Done

\* C17: an accepted v_styx_1 output has a non-empty path-template; the same
\* output with its path-template-fallback string added or removed has the
\* same verdict; an output with optional, conditional-path-template or
\* file-template is rejected.
C17_StyxOutputNeedsPathTemplate ==
    StyxOutputDone /\ "path-template-fallback" \in DOMAIN raw =>
        /\ AcceptedNow => NonEmptyText(raw, "path-template")
        /\ AcceptedNow <=> Accepts(Styx, "Output", FallbackToggled(raw))
        /\ Has(raw, "optional") \/ Has(raw, "conditional-path-template")
              \/ Has(raw, "file-template") => RejectedNow

C17_Witness ==
    /\ StyxOutputDone
    /\ AcceptedNow
    /\ Has(raw, "path-template-fallback")
    /\ NonEmptyText(raw, "path-template")

StyxDescriptorDone == dialect = Styx /\ target = "Descriptor" /\ Done

\* The field of alias k is given, under the alias or, the alias being absent,
\* under the attribute name.
Given(r, k) == IF Has(r, k) THEN Get(r, k) ELSE Get(r, FieldName(k))

\* C18 as stated: an accepted v_styx_1 Descriptor has a non-empty `name`, a
\* non-empty `command-line` and a `schema-version` equal to "0.5+styx".
C18_DescriptorNeedsAliasedKeys ==
    StyxDescriptorDone /\ AcceptedNow =>
        /\ NonEmptyText(raw, "name")
        /\ NonEmptyText(raw, "command-line")
        /\ Get(raw, "schema-version") = JStr(TagStyx)

\* C18 amended: an accepted v_styx_1 Descriptor has a non-empty name, a
\* non-empty command line and the schema version "0.5+styx", each given
\* under its alias or, the alias being absent, under its attribute name; a
\* Descriptor giving one of the three under neither key, or another schema
\* version, is rejected.
C18_DescriptorNeedsRequiredFields ==
    StyxDescriptorDone =>
        /\ AcceptedNow =>
              /\ NonEmptyText(raw, "name")
              /\ Given(raw, "command-line").kind = "string"
              /\ Given(raw, "command-line").text # <<>>
              /\ Given(raw, "schema-version") = JStr(TagStyx)
        /\ \/ Given(raw, "name") = Absent
           \/ Given(raw, "command-line") = Absent
           \/ Given(raw, "schema-version") # JStr(TagStyx)
           => RejectedNow

C18_Witness ==
    /\ StyxDescriptorDone
    /\ AcceptedNow
    /\ ~Has(raw, "command-line") /\ Has(raw, "command_line")
    /\ ~Has(raw, "schema-version") /\ Has(raw, "schema_version")

Range(q) == {q[i] : i \in 1..Len(q)}

\* The SubCommandType objects embedded in the inputs of r, and those
\* embedded one level further down.
EmbeddedIn(r) ==
    UNION {Range(Get(in, "type").sub) : in \in Range(Get(r, "inputs").sub)}

Depth1 == EmbeddedIn(raw)
Depth2 == UNION {EmbeddedIn(sc) : sc \in Depth1}
Depth3 == UNION {EmbeddedIn(sc) : sc \in Depth2}

SubCommandTypeKeys ==
    {"command-line", "inputs", "output-files", "id", "name", "description"}

\* A sub-command with a non-empty command-line, a valid id, no unknown key,
\* and inputs and outputs that are valid on their own.
SoundSubCommand(sc) ==
    /\ NonEmptyText(sc, "command-line")
    /\ Get(sc, "id").kind = "string" /\ Matches(IdPattern, Get(sc, "id").text)
    /\ Keys(sc) \subseteq SubCommandTypeKeys
    /\ \A in \in Range(Get(sc, "inputs").sub) :
          /\ UnionAccepting(Styx, "Input", in) # <<>>
          /\ Get(in, "id").kind = "string" /\ Matches(IdPattern, Get(in, "id").text)
          /\ ~Has(in, "x-extra")
    /\ \A out \in Range(Get(sc, "output-files").sub) :
          Accepts(Styx, "Output", out)

\* C16: a v_styx_1 Descriptor is accepted only if every SubCommandType
\* embedded in its sub-command and sub-command-union inputs, at every depth,
\* has a non-empty command-line, a valid id, no unknown key, and inputs and
\* outputs that are themselves valid.
C16_EmbeddedSubCommandsValidatedAtEveryDepth ==
    StyxDescriptorDone /\ AcceptedNow =>
        \A sc \in Depth1 \cup Depth2 \cup Depth3 : SoundSubCommand(sc)

C16_Witness ==
    /\ StyxDescriptorDone
    /\ AcceptedNow
    /\ Depth2 # {}

=============================================================================
